---- MODULE Spec2Model ----
(***************************************************************************)
(* Commit graph of pkg/gui/presentation/graph/graph.go: the row-to-row     *)
(* fold getNextPipes / GetPipeSets, the row renderer renderPipeSet, the    *)
(* parallel renderer RenderAux and the hash comparison equalHashes.        *)
(*                                                                         *)
(* A hash is a sequence of characters (small naturals); a commit is a      *)
(* record [Hash, Parents]; a pipe is a record with the fields of the Go    *)
(* struct Pipe.  An optional commit (prevCommit, nil or a pointer) is a    *)
(* sequence of length 0 or 1.                                              *)
(***************************************************************************)
EXTENDS Integers, Sequences, FiniteSets, TLC

VARIABLES
    \* --- GetPipeSets fold, one row at a time (specification Spec)
    prevPipes,          \* the row handed to getNextPipes
    prevCommit,         \* <<>> or <<c>>: the commit of the previous row
    commit,             \* <<>> or <<c>>: the commit of the current row
    pipes,              \* the row getNextPipes returned for commit
    nRows,              \* number of rows produced so far
    commits,            \* the commit list (in Spec: the part folded so far)
    selectedCommitHash, \* the selection handed to renderPipeSet / RenderAux
    rendered,           \* <<>> or <<r>>: result of renderPipeSet on pipes
    renderedNoSel,      \* <<>> or <<r>>: the same row rendered with ""
    \* --- RenderCommitGraph / RenderAux (specification SpecRender)
    pipeSets,           \* result of GetPipeSets
    maxProcs,           \* runtime.GOMAXPROCS(0)
    pc,                 \* position of the calling goroutine
    spawned,            \* loop variable i of the spawning loop
    wpc,                \* position of each worker goroutine
    wk,                 \* next row index each worker renders
    innerLines,         \* each worker's innerLines
    chunks,             \* the shared chunks slice
    wg,                 \* the WaitGroup counter
    lines,              \* the value RenderCommitGraph returns
    \* --- equalHashes as a function of two strings (specification SpecEq)
    eqA, eqB, eqResult

vars == <<prevPipes, prevCommit, commit, pipes, nRows, selectedCommitHash,
          rendered, renderedNoSel, commits, pipeSets, maxProcs, pc, spawned,
          wpc, wk, innerLines, chunks, wg, lines, eqA, eqB, eqResult>>

foldVars   == <<prevPipes, prevCommit, commit, pipes, nRows, commits>>
rowVars    == <<rendered, renderedNoSel>>
renderVars == <<pipeSets, maxProcs, pc, spawned, wpc, wk,
                innerLines, chunks, wg, lines>>
eqVars     == <<eqA, eqB, eqResult>>

----------------------------------------------------------------------------
\* PipeKind
TERMINATES == 0
STARTS     == 1
CONTINUES  == 2

\* the source hash of the seed pipe ("START") and models.EmptyTreeCommitHash:
\* strings that start with a character no commit hash of the model contains
StartHash           == <<8>>
EmptyTreeCommitHash == <<9>>

\* styles: style.FgDefault, highlightStyle, and what getStyle returns
FgDefault      == "default"
highlightStyle == "highlight"

min(a, b) == IF a < b THEN a ELSE b
max(a, b) == IF a > b THEN a ELSE b

equalHashesNoEmptyCheck(a, b) ==
    LET length == min(Len(a), Len(b))
    IN  SubSeq(a, 1, length) = SubSeq(b, 1, length)

equalHashesSameLength(a, b) ==
    IF a = <<>> \/ b = <<>> THEN FALSE ELSE a = b

equalHashes(a, b) ==
    IF a = <<>> \/ b = <<>>
    THEN FALSE
    ELSE LET length == min(Len(a), Len(b))
         IN  SubSeq(a, 1, length) = SubSeq(b, 1, length)

\* the style function handed in by the caller: one style per commit,
\* never the highlight style
getStyle(c) == <<"style", c.Hash>>

IsMerge(c) == Len(c.Parents) > 1

left(pipe)  == min(pipe.fromPos, pipe.toPos)
right(pipe) == max(pipe.fromPos, pipe.toPos)

----------------------------------------------------------------------------
\* getNextPipes

\* lines 115-120
maxPosOf(prev) ==
    LET tos == {prev[i].toPos : i \in 1..Len(prev)} \cup {0}
    IN  CHOOSE m \in tos : \A t \in tos : t <= m

\* lines 124-126
currentPipesOf(prev) ==
    LET NotTerminated(pipe) == pipe.kind # TERMINATES
    IN  SelectSeq(prev, NotTerminated)

commitLaneAlwaysNew(prev, c) == maxPosOf(prev) + 1

commitLaneLastMatch(prev, c) ==
    LET cur == currentPipesOf(prev)
        matching == {i \in 1..Len(cur) : equalHashes(cur[i].toHash, c.Hash)}
    IN  IF matching = {}
        THEN maxPosOf(prev) + 1
        ELSE cur[CHOOSE i \in matching : \A j \in matching : j <= i].toPos

\* lines 131-138
commitLane(prev, c) ==
    LET cur == currentPipesOf(prev)
        matching == {i \in 1..Len(cur) : equalHashes(cur[i].toHash, c.Hash)}
    IN  IF matching = {}
        THEN maxPosOf(prev) + 1
        ELSE cur[CHOOSE i \in matching : \A j \in matching : i <= j].toPos

firstPipeToFirstParentOnly(c, pos) ==
    [fromPos |-> pos, toPos |-> pos, fromHash |-> c.Hash,
     toHash |-> IF Len(c.Parents) > 0 THEN c.Parents[1] ELSE c.Hash,
     kind |-> STARTS, style |-> getStyle(c)]

\* lines 145-163
firstPipe(c, pos) ==
    [fromPos |-> pos, toPos |-> pos, fromHash |-> c.Hash,
     toHash |-> IF Len(c.Parents) > 0 THEN c.Parents[1] ELSE EmptyTreeCommitHash,
     kind |-> STARTS, style |-> getStyle(c)]

\* lines 165-170
traversedSpotsForContinuingPipes(cur, c) ==
    {cur[i].toPos : i \in {j \in 1..Len(cur) : ~equalHashes(cur[j].toHash, c.Hash)}}

\* the smallest natural that is not in S
firstFree(S) ==
    CHOOSE i \in 0..Cardinality(S) : i \notin S /\ \A j \in 0..(i - 1) : j \in S

\* lines 172-180
getNextAvailablePosForContinuingPipe(st) == firstFree(st.traversedSpots)

getNextAvailablePosForNewPipeTakenOnly(st, cur, c) == firstFree(st.takenSpots)

\* lines 182-192
getNextAvailablePosForNewPipe(st, cur, c) ==
    firstFree(st.takenSpots \cup traversedSpotsForContinuingPipes(cur, c))

\* lines 194-203
traverse(st, from, to) ==
    LET l == IF from > to THEN to ELSE from
        r == IF from > to THEN from ELSE to
    IN  [st EXCEPT !.traversedSpots = @ \cup (l..r),
                   !.takenSpots = @ \cup {to}]

withPipe(st, pipe) == [st EXCEPT !.newPipes = Append(@, pipe)]

\* lines 205-230, one iteration for cur[i], then the rest
RECURSIVE terminateOrContinueLeft(_, _, _, _, _)
terminateOrContinueLeft(st, cur, i, c, pos) ==
    IF i > Len(cur) THEN st
    ELSE LET pipe == cur[i]
             next ==
               IF equalHashes(pipe.toHash, c.Hash)
               THEN traverse(withPipe(st,
                        [fromPos |-> pipe.toPos, toPos |-> pos,
                         fromHash |-> pipe.fromHash, toHash |-> pipe.toHash,
                         kind |-> TERMINATES, style |-> pipe.style]),
                        pipe.toPos, pos)
               ELSE IF pipe.toPos < pos
               THEN LET availablePos == getNextAvailablePosForContinuingPipe(st)
                    IN  traverse(withPipe(st,
                            [fromPos |-> pipe.toPos, toPos |-> availablePos,
                             fromHash |-> pipe.fromHash, toHash |-> pipe.toHash,
                             kind |-> CONTINUES, style |-> pipe.style]),
                            pipe.toPos, availablePos)
               ELSE st
         IN  terminateOrContinueLeft(next, cur, i + 1, c, pos)

RECURSIVE startPipesFromDestination(_, _, _, _, _)
startPipesFromDestination(st, cur, i, c, pos) ==
    IF ~IsMerge(c) \/ i > Len(c.Parents) THEN st
    ELSE LET availablePos == getNextAvailablePosForNewPipe(st, cur, c)
             next == [withPipe(st,
                        [fromPos |-> availablePos, toPos |-> availablePos,
                         fromHash |-> c.Hash, toHash |-> c.Parents[i],
                         kind |-> STARTS, style |-> getStyle(c)])
                      EXCEPT !.takenSpots = @ \cup {availablePos}]
         IN  startPipesFromDestination(next, cur, i + 1, c, pos)

\* lines 232-247, one iteration for c.Parents[i], then the rest
RECURSIVE startPipesForOtherParents(_, _, _, _, _)
startPipesForOtherParents(st, cur, i, c, pos) ==
    IF ~IsMerge(c) \/ i > Len(c.Parents) THEN st
    ELSE LET availablePos == getNextAvailablePosForNewPipe(st, cur, c)
             next == [withPipe(st,
                        [fromPos |-> pos, toPos |-> availablePos,
                         fromHash |-> c.Hash, toHash |-> c.Parents[i],
                         kind |-> STARTS, style |-> getStyle(c)])
                      EXCEPT !.takenSpots = @ \cup {availablePos}]
         IN  startPipesForOtherParents(next, cur, i + 1, c, pos)

RECURSIVE slideLeftTakenOnly(_, _, _, _)
slideLeftTakenOnly(st, i, pos, last) ==
    IF i > pos
    THEN IF i \in st.takenSpots
         THEN last
         ELSE slideLeftTakenOnly(st, i - 1, pos, i)
    ELSE last

\* lines 252-259: the leftmost lane the pipe can slide to
RECURSIVE slideLeft(_, _, _, _)
slideLeft(st, i, pos, last) ==
    IF i > pos
    THEN IF i \in st.takenSpots \/ i \in st.traversedSpots
         THEN last
         ELSE slideLeft(st, i - 1, pos, i)
    ELSE last

\* lines 249-270, one iteration for cur[i], then the rest
RECURSIVE continueRight(_, _, _, _, _)
continueRight(st, cur, i, c, pos) ==
    IF i > Len(cur) THEN st
    ELSE LET pipe == cur[i]
             next ==
               IF ~equalHashes(pipe.toHash, c.Hash) /\ pipe.toPos > pos
               THEN LET last == slideLeft(st, pipe.toPos, pos, pipe.toPos)
                    IN  traverse(withPipe(st,
                            [fromPos |-> pipe.toPos, toPos |-> last,
                             fromHash |-> pipe.fromHash, toHash |-> pipe.toHash,
                             kind |-> CONTINUES, style |-> pipe.style]),
                            pipe.toPos, last)
               ELSE st
         IN  continueRight(next, cur, i + 1, c, pos)

\* lines 273-278: the comparison function of the sort
comparePipesByLaneOnly(a, b) ==
    IF a.toPos = b.toPos THEN 0 ELSE (IF a.toPos < b.toPos THEN -1 ELSE 1)

comparePipes(a, b) ==
    IF a.toPos = b.toPos
    THEN (IF a.kind < b.kind THEN -1 ELSE IF a.kind > b.kind THEN 1 ELSE 0)
    ELSE (IF a.toPos < b.toPos THEN -1 ELSE 1)

\* slices.SortFunc on a slice of at most 12 elements is an insertion sort:
\* each element moves left past the elements that compare greater
insertPipe(sorted, pipe) ==
    LET notGreater == {i \in 1..Len(sorted) : comparePipes(pipe, sorted[i]) >= 0}
        k == IF notGreater = {} THEN 0
             ELSE CHOOSE i \in notGreater : \A j \in notGreater : j <= i
    IN  SubSeq(sorted, 1, k) \o <<pipe>> \o SubSeq(sorted, k + 1, Len(sorted))

RECURSIVE sortPipes(_)
sortPipes(s) ==
    IF s = <<>> THEN <<>>
    ELSE insertPipe(sortPipes(SubSeq(s, 1, Len(s) - 1)), s[Len(s)])

\* the state of the three loops before the first one
initialLoopState(c, pos) ==
    [newPipes |-> <<firstPipe(c, pos)>>, takenSpots |-> {}, traversedSpots |-> {}]

afterFirstLoop(prev, c) ==
    terminateOrContinueLeft(initialLoopState(c, commitLane(prev, c)),
                            currentPipesOf(prev), 1, c, commitLane(prev, c))

afterSecondLoop(prev, c) ==
    startPipesForOtherParents(afterFirstLoop(prev, c), currentPipesOf(prev),
                              2, c, commitLane(prev, c))

afterThirdLoop(prev, c) ==
    continueRight(afterSecondLoop(prev, c), currentPipesOf(prev), 1, c,
                  commitLane(prev, c))

getNextPipes(prev, c) == sortPipes(afterThirdLoop(prev, c).newPipes)

\* line 69: the seed pipe
seedPipes(cs) ==
    <<[fromPos |-> 0, toPos |-> 0, fromHash |-> StartHash,
       toHash |-> cs[1].Hash, kind |-> STARTS, style |-> FgDefault]>>

\* lines 64-75
RECURSIVE pipeSetsUpTo(_, _)
pipeSetsUpTo(cs, n) ==
    IF n = 0 THEN <<>>
    ELSE LET before == pipeSetsUpTo(cs, n - 1)
             prev == IF n = 1 THEN seedPipes(cs) ELSE before[n - 1]
         IN  Append(before, getNextPipes(prev, cs[n]))

GetPipeSets(cs) == IF Len(cs) = 0 THEN <<>> ELSE pipeSetsUpTo(cs, Len(cs))

----------------------------------------------------------------------------
\* Cell (pkg/gui/presentation/graph/cell.go): connector flags, style and type
CONNECTION == 0
COMMIT     == 1
MERGE      == 2

newCell ==
    [cellType |-> CONNECTION, style |-> FgDefault, rightStyle |-> <<>>,
     up |-> FALSE, down |-> FALSE, left |-> FALSE, right |-> FALSE]

setUp(cell, st)   == [cell EXCEPT !.up = TRUE, !.style = st]
setDown(cell, st) == [cell EXCEPT !.down = TRUE, !.style = st]
setLeft(cell, st) ==
    [cell EXCEPT !.left = TRUE,
                 !.rightStyle = IF cell.right THEN @ ELSE <<st>>]
setRight(cell, st, override) ==
    [cell EXCEPT !.right = TRUE,
                 !.rightStyle = IF @ = <<>> \/ override THEN <<st>> ELSE @]
reset(cell) ==
    [cell EXCEPT !.up = FALSE, !.down = FALSE, !.left = FALSE, !.right = FALSE]
setStyle(cell, st) == [cell EXCEPT !.style = st]
setType(cell, t)   == [cell EXCEPT !.cellType = t]

\* the text of one cell: a glyph chosen by the flags and the type, in the
\* cell's styles
renderCell(cell) ==
    <<cell.cellType, cell.up, cell.down, cell.left, cell.right,
      cell.style, cell.rightStyle>>

----------------------------------------------------------------------------
\* renderPipeSet

\* lines 288-302: commitPos is the lane of the last STARTS or TERMINATES pipe
RECURSIVE scanCommitPos(_, _, _)
scanCommitPos(ps, i, acc) ==
    IF i > Len(ps) THEN acc
    ELSE scanCommitPos(ps, i + 1,
             IF ps[i].kind = STARTS THEN ps[i].fromPos
             ELSE IF ps[i].kind = TERMINATES THEN ps[i].toPos
             ELSE acc)

renderCommitPos(ps) == scanCommitPos(ps, 1, 0)

startCount(ps) == Cardinality({i \in 1..Len(ps) : ps[i].kind = STARTS})

renderMaxPos(ps) ==
    LET rs == {right(ps[i]) : i \in 1..Len(ps)} \cup {0}
    IN  CHOOSE m \in rs : \A r \in rs : r <= m

\* lines 309-327.  The row and the pipe are bound once, as the values the
\* call receives, before the cells are drawn.
renderPipe(cells, pipe, st, overrideRightStyle) ==
    LET Draw(cs, p) ==
            LET l == left(p)
                r == right(p)
                span == [i \in DOMAIN cs |->
                           IF l = r THEN cs[i]
                           ELSE IF i > l /\ i < r
                                THEN setRight(setLeft(cs[i], st), st,
                                              overrideRightStyle)
                           ELSE IF i = l
                                THEN setRight(cs[i], st, overrideRightStyle)
                           ELSE IF i = r THEN setLeft(cs[i], st)
                           ELSE cs[i]]
                down == IF p.kind = STARTS \/ p.kind = CONTINUES
                        THEN [span EXCEPT ![p.toPos] = setDown(@, st)]
                        ELSE span
            IN  IF p.kind = TERMINATES \/ p.kind = CONTINUES
                THEN [down EXCEPT ![p.fromPos] = setUp(@, st)]
                ELSE down
    IN  CHOOSE drawn \in {Draw(cs, p) : cs \in {cells}, p \in {pipe}} : TRUE

\* lines 331-339
highlightOf(ps, sel, prevC) ==
    IF prevC # <<>> /\ equalHashes(prevC[1].Hash, sel)
    THEN \E i \in 1..Len(ps) :
            /\ equalHashes(ps[i].fromHash, sel)
            /\ (ps[i].kind # TERMINATES \/ ps[i].fromPos # ps[i].toPos)
    ELSE TRUE

\* lines 343-345
isSelectedWithoutHighlight(ps, sel, prevC, pipe) ==
    equalHashes(pipe.fromHash, sel)

isSelected(ps, sel, prevC, pipe) ==
    highlightOf(ps, sel, prevC) /\ equalHashes(pipe.fromHash, sel)

selectedPipesOf(ps, sel, prevC) ==
    LET Sel(pipe) == isSelected(ps, sel, prevC, pipe)
    IN  SelectSeq(ps, Sel)

nonSelectedPipesOf(ps, sel, prevC) ==
    LET NonSel(pipe) == ~isSelected(ps, sel, prevC, pipe)
    IN  SelectSeq(ps, NonSel)

\* lines 347-351
RECURSIVE renderNonSelectedStarts(_, _, _)
renderNonSelectedStarts(cells, ps, i) ==
    IF i > Len(ps) THEN cells
    ELSE renderNonSelectedStarts(
             IF ps[i].kind = STARTS
             THEN renderPipe(cells, ps[i], ps[i].style, TRUE)
             ELSE cells,
             ps, i + 1)

\* lines 353-357
RECURSIVE renderNonSelectedOthers(_, _, _, _)
renderNonSelectedOthers(cells, ps, i, cPos) ==
    IF i > Len(ps) THEN cells
    ELSE renderNonSelectedOthers(
             IF /\ ps[i].kind # STARTS
                /\ ~(ps[i].kind = TERMINATES /\ ps[i].fromPos = cPos
                                             /\ ps[i].toPos = cPos)
             THEN renderPipe(cells, ps[i], ps[i].style, FALSE)
             ELSE cells,
             ps, i + 1, cPos)

\* lines 359-363: the lanes whose cells are reset
resetSpots(ps) ==
    UNION {left(ps[i])..right(ps[i]) : i \in 1..Len(ps)}

resetEveryCell(cells, ps) ==
    [i \in DOMAIN cells |-> IF ps # <<>> THEN reset(cells[i]) ELSE cells[i]]

resetSelected(cells, ps) ==
    LET Reset(cs) == [i \in DOMAIN cs |-> IF i \in resetSpots(ps)
                                          THEN reset(cs[i]) ELSE cs[i]]
    IN  CHOOSE cleared \in {Reset(cs) : cs \in {cells}} : TRUE

\* lines 364-369
RECURSIVE renderSelected(_, _, _, _)
renderSelected(cells, ps, i, cPos) ==
    IF i > Len(ps) THEN cells
    ELSE LET drawn == renderPipe(cells, ps[i], highlightStyle, TRUE)
         IN  renderSelected(
                 IF ps[i].toPos = cPos
                 THEN [drawn EXCEPT ![cPos] = setStyle(@, highlightStyle)]
                 ELSE drawn,
                 ps, i + 1, cPos)

\* lines 283-385: the cells of the row, and what the selection did
renderPipeSet(ps, sel, prevC) ==
    LET cPos == renderCommitPos(ps)
        selected == selectedPipesOf(ps, sel, prevC)
        nonSelected == nonSelectedPipesOf(ps, sel, prevC)
        blank == [i \in 0..renderMaxPos(ps) |-> newCell]
        c1 == renderNonSelectedStarts(blank, nonSelected, 1)
        c2 == renderNonSelectedOthers(c1, nonSelected, 1, cPos)
        c3 == resetSelected(c2, selected)
        c4 == renderSelected(c3, selected, 1, cPos)
        c5 == [c4 EXCEPT ![cPos] =
                 setType(@, IF startCount(ps) > 1 THEN MERGE ELSE COMMIT)]
        Row(cs) ==
            [cells |-> cs,
             line |-> [i \in DOMAIN cs |-> renderCell(cs[i])],
             selectedPipes |-> selected,
             resetCells |-> IF selected = <<>> THEN {}
                            ELSE resetSpots(selected)]
    IN  CHOOSE row \in {Row(cs) : cs \in {c5}} : TRUE

----------------------------------------------------------------------------
\* Bounds of the model
MaxCommits == 4     \* rows folded by GetPipeSets in Spec
MaxParents == 2     \* parents of one commit
MaxRows    == 3     \* commits handed to RenderCommitGraph in SpecRender
MaxProcs   == 3     \* largest GOMAXPROCS in SpecRender
MaxHashLen == 2     \* longest string handed to equalHashes in SpecEq

\* hashes: commits carry full hashes; a parent reference is full or
\* abbreviated (<<1>> is a prefix of <<1, 1>> and of <<1, 2>>); no parent
\* names commit <<3>>, and <<4>> names a commit that is never listed
CommitHashes == {<<1, 1>>, <<1, 2>>, <<2>>, <<3>>}
ParentHashes == {<<1>>, <<1, 2>>, <<2>>, <<4>>}
ParentLists == UNION {[1..n -> ParentHashes] : n \in 0..MaxParents}

\* a commit does not name a parent twice and is not its own parent; the
\* parents need not be commits of the list
WellFormed(c) ==
    /\ \A i, j \in 1..Len(c.Parents) :
          i # j => ~equalHashes(c.Parents[i], c.Parents[j])
    /\ \A i \in 1..Len(c.Parents) : ~equalHashes(c.Parents[i], c.Hash)
Commits == {c \in [Hash : CommitHashes, Parents : ParentLists] : WellFormed(c)}

\* a commit list names every commit once, and a commit before its parents
NotListed(cs, c) == \A k \in 1..Len(cs) : ~equalHashes(cs[k].Hash, c.Hash)
InHistoryOrder(cs, c) ==
    \A k \in 1..Len(cs), i \in 1..Len(c.Parents) :
        ~equalHashes(c.Parents[i], cs[k].Hash)

Selections == {<<>>, <<1, 1>>, <<2>>, <<3>>}

foldIdle ==
    /\ prevPipes = <<>> /\ prevCommit = <<>> /\ commit = <<>> /\ pipes = <<>>
    /\ nRows = 0 /\ rendered = <<>> /\ renderedNoSel = <<>>

renderIdle ==
    /\ pipeSets = <<>> /\ maxProcs = 1 /\ pc = "idle"
    /\ spawned = 0 /\ wpc = <<>> /\ wk = <<>> /\ innerLines = <<>>
    /\ chunks = <<>> /\ wg = 0 /\ lines = <<>>

eqIdle == eqA = <<>> /\ eqB = <<>> /\ eqResult = <<>>

----------------------------------------------------------------------------
\* Specification Spec: GetPipeSets folds getNextPipes over a commit list, one
\* commit at a time, and each row is rendered by renderPipeSet

Init ==
    /\ prevPipes = <<>> /\ prevCommit = <<>> /\ commit = <<>> /\ pipes = <<>>
    /\ nRows = 0 /\ commits = <<>>
    /\ selectedCommitHash = <<>> /\ rendered = <<>> /\ renderedNoSel = <<>>
    /\ renderIdle /\ eqIdle

\* lines 69-74: the callback of lo.Map for the next commit c
NextRow(c) ==
    /\ nRows < MaxCommits
    /\ rendered = <<>>
    /\ NotListed(commits, c)
    /\ InHistoryOrder(commits, c)
    /\ commits' = Append(commits, c)
    /\ prevPipes' = IF nRows = 0 THEN seedPipes(<<c>>) ELSE pipes
    /\ pipes' = getNextPipes(prevPipes', c)
    /\ prevCommit' = commit
    /\ commit' = <<c>>
    /\ nRows' = nRows + 1
    /\ UNCHANGED <<selectedCommitHash, rowVars, renderVars, eqVars>>

\* line 101: the row is rendered with the selection sel, and with no selection
RenderRow(sel) ==
    /\ nRows > 0
    /\ rendered = <<>>
    /\ selectedCommitHash' = sel
    /\ rendered' = <<renderPipeSet(pipes, sel, prevCommit)>>
    /\ renderedNoSel' = <<renderPipeSet(pipes, <<>>, prevCommit)>>
    /\ UNCHANGED <<foldVars, renderVars, eqVars>>

Next ==
    \/ \E c \in Commits : NextRow(c)
    \/ \E sel \in Selections : RenderRow(sel)

Spec == Init /\ [][Next]_vars

----------------------------------------------------------------------------
\* Specification SpecRender: RenderCommitGraph on a commit list, RenderAux
\* with maxProcs worker goroutines that run interleaved.  Workers are
\* numbered 0..maxProcs-1 as in the code; each closure has its own i.

\* the commits of the lists rendered: the chain 3 -> 2 -> 11 and a merge
RenderCommits ==
    {[Hash |-> <<3>>,    Parents |-> <<<<2>>>>],
     [Hash |-> <<2>>,    Parents |-> <<<<1, 1>>>>],
     [Hash |-> <<1, 1>>, Parents |-> <<>>],
     [Hash |-> <<1, 2>>, Parents |-> <<<<2>>, <<1, 1>>>>]}

RECURSIVE ListsOfLen(_)
ListsOfLen(n) ==
    IF n = 0 THEN {<<>>}
    ELSE {Append(cs, c) : cs \in ListsOfLen(n - 1), c \in RenderCommits}

RenderInputs ==
    {cs \in UNION {ListsOfLen(n) : n \in 0..MaxRows} :
        \A k \in 1..Len(cs) :
            /\ NotListed(SubSeq(cs, 1, k - 1), cs[k])
            /\ InHistoryOrder(SubSeq(cs, 1, k - 1), cs[k])}

RenderSelections == {<<>>, <<2>>}

Procs == 0..(maxProcs - 1)

InitRender ==
    /\ foldIdle /\ eqIdle
    /\ commits \in RenderInputs
    /\ selectedCommitHash \in RenderSelections
    /\ maxProcs \in 1..MaxProcs
    /\ pipeSets = <<>>
    /\ pc = "start"
    /\ spawned = 0
    /\ wpc = [i \in Procs |-> "none"]
    /\ wk = [i \in Procs |-> 0]
    /\ innerLines = [i \in Procs |-> <<>>]
    /\ chunks = [i \in Procs |-> <<>>]
    /\ wg = 0
    /\ lines = <<>>

\* line 82
perProc == Len(pipeSets) \div maxProcs

\* lines 89-93: the rows [from, to) of worker i, counted from 0
toOfNoRemainder(i) == (i + 1) * perProc

fromOfFirstRow(i) == 0

fromOf(i) == i * perProc
toOf(i) == IF i = maxProcs - 1 THEN Len(pipeSets) ELSE (i + 1) * perProc

\* lines 96-101: the line of row k (counted from 0)
lineOfRow(k) ==
    renderPipeSet(pipeSets[k + 1], selectedCommitHash,
                  IF k > 0 THEN <<commits[k]>> ELSE <<>>).line

\* line 111: lo.Flatten(chunks)
RECURSIVE flattenUpTo(_, _)
flattenUpTo(cs, n) ==
    IF n = 0 THEN <<>> ELSE flattenUpTo(cs, n - 1) \o cs[n - 1]

flattenReversed(cs) ==
    LET rev == [i \in DOMAIN cs |-> cs[maxProcs - 1 - i]]
    IN  flattenUpTo(rev, maxProcs)

Flatten(cs) == flattenUpTo(cs, maxProcs)

\* lines 54-57: GetPipeSets, and the early return for no rows
CallGetPipeSets ==
    /\ pc = "start"
    /\ pipeSets' = GetPipeSets(commits)
    /\ pc' = IF Len(pipeSets') = 0 THEN "done" ELSE "aux"
    /\ UNCHANGED <<foldVars, rowVars, eqVars, selectedCommitHash, maxProcs,
                   spawned, wpc, wk, innerLines, chunks, wg, lines>>

\* lines 78-85: chunks is allocated and the WaitGroup is set to maxProcs
EnterRenderAux ==
    /\ pc = "aux"
    /\ chunks' = [i \in Procs |-> <<>>]
    /\ wg' = maxProcs
    /\ spawned' = 0
    /\ pc' = "spawn"
    /\ UNCHANGED <<foldVars, rowVars, eqVars, selectedCommitHash, maxProcs,
                   pipeSets, wpc, wk, innerLines, lines>>

\* lines 87-88: one iteration of the loop that starts the goroutines
Spawn ==
    /\ pc = "spawn"
    /\ IF spawned < maxProcs
       THEN /\ wpc' = [wpc EXCEPT ![spawned] = "range"]
            /\ spawned' = spawned + 1
            /\ pc' = pc
       ELSE /\ pc' = "wait"
            /\ UNCHANGED <<wpc, spawned>>
    /\ UNCHANGED <<foldVars, rowVars, eqVars, selectedCommitHash, maxProcs,
                   pipeSets, wk, innerLines, chunks, wg, lines>>

\* lines 89-94: worker i computes its range
WorkerRange(i) ==
    /\ wpc[i] = "range"
    /\ wk' = [wk EXCEPT ![i] = fromOf(i)]
    /\ innerLines' = [innerLines EXCEPT ![i] = <<>>]
    /\ wpc' = [wpc EXCEPT ![i] = "loop"]
    /\ UNCHANGED <<foldVars, rowVars, eqVars, selectedCommitHash, maxProcs,
                   pipeSets, pc, spawned, chunks, wg, lines>>

\* lines 95-103: worker i renders its next row
WorkerRender(i) ==
    /\ wpc[i] = "loop"
    /\ wk[i] < toOf(i)
    /\ innerLines' = [innerLines EXCEPT ![i] = Append(@, lineOfRow(wk[i]))]
    /\ wk' = [wk EXCEPT ![i] = @ + 1]
    /\ UNCHANGED <<foldVars, rowVars, eqVars, selectedCommitHash, maxProcs,
                   pipeSets, pc, spawned, wpc, chunks, wg, lines>>

\* line 104: worker i stores its lines
WorkerStore(i) ==
    /\ wpc[i] = "loop"
    /\ wk[i] >= toOf(i)
    /\ chunks' = [chunks EXCEPT ![i] = innerLines[i]]
    /\ wpc' = [wpc EXCEPT ![i] = "stored"]
    /\ UNCHANGED <<foldVars, rowVars, eqVars, selectedCommitHash, maxProcs,
                   pipeSets, pc, spawned, wk, innerLines, wg, lines>>

\* line 105: wg.Done()
WorkerDone(i) ==
    /\ wpc[i] = "stored"
    /\ wg' = wg - 1
    /\ wpc' = [wpc EXCEPT ![i] = "done"]
    /\ UNCHANGED <<foldVars, rowVars, eqVars, selectedCommitHash, maxProcs,
                   pipeSets, pc, spawned, wk, innerLines, chunks, lines>>

waitWithoutBarrier ==
    /\ pc = "wait"
    /\ lines' = Flatten(chunks)
    /\ pc' = "done"
    /\ UNCHANGED <<foldVars, rowVars, eqVars, selectedCommitHash, maxProcs,
                   pipeSets, spawned, wpc, wk, innerLines, chunks, wg>>

\* lines 109-111 and 59-61: wg.Wait() returns, the chunks are concatenated
WaitAndFlatten ==
    /\ pc = "wait"
    /\ wg = 0
    /\ lines' = Flatten(chunks)
    /\ pc' = "done"
    /\ UNCHANGED <<foldVars, rowVars, eqVars, selectedCommitHash, maxProcs,
                   pipeSets, spawned, wpc, wk, innerLines, chunks, wg>>

NextRender ==
    \/ CallGetPipeSets
    \/ EnterRenderAux
    \/ Spawn
    \/ \E i \in Procs : WorkerRange(i)
    \/ \E i \in Procs : WorkerRender(i)
    \/ \E i \in Procs : WorkerStore(i)
    \/ \E i \in Procs : WorkerDone(i)
    \/ WaitAndFlatten

SpecRender == InitRender /\ [][NextRender]_vars

----------------------------------------------------------------------------
\* Specification SpecEq: equalHashes applied to two strings

Chars == {1, 2, 3}
Strings == UNION {[1..n -> Chars] : n \in 0..MaxHashLen}

InitEq ==
    /\ foldIdle /\ renderIdle
    /\ commits = <<>> /\ selectedCommitHash = <<>>
    /\ eqA \in Strings /\ eqB \in Strings
    /\ eqResult = <<>>

EqualHashesCall ==
    /\ eqResult = <<>>
    /\ eqResult' = <<equalHashes(eqA, eqB), equalHashes(eqB, eqA)>>
    /\ UNCHANGED <<foldVars, rowVars, renderVars, selectedCommitHash, eqA, eqB>>

NextEq == EqualHashesCall

SpecEq == InitEq /\ [][NextEq]_vars

----------------------------------------------------------------------------
\* Properties of the rows of GetPipeSets (specification Spec)

NonTerminating(row) == {i \in 1..Len(row) : row[i].kind # TERMINATES}
StartsOf(row, c) ==
    {i \in 1..Len(row) : row[i].kind = STARTS /\ row[i].fromHash = c.Hash}

\* C1: in every row of GetPipeSets no two pipes whose kind is not TERMINATES
\* have the same destination lane
C1_NoSharedDestinationLane ==
    \A i, j \in NonTerminating(pipes) : i # j => pipes[i].toPos # pipes[j].toPos

\* C2: a commit with k >= 2 parents yields exactly k STARTS pipes sourced
\* from it, and their destination lanes are pairwise distinct
C2_MergeStartsDistinctLanes ==
    (commit # <<>> /\ Len(commit[1].Parents) >= 2) =>
        /\ Cardinality(StartsOf(pipes, commit[1])) = Len(commit[1].Parents)
        /\ \A i, j \in StartsOf(pipes, commit[1]) :
              i # j => pipes[i].toPos # pipes[j].toPos

\* C3: a non-terminating pipe of the previous row whose destination hash the
\* commit does not match is a CONTINUES pipe of the next row, with the same
\* source and destination hash (so, row after row, it persists to the last)
C3_UnmatchedPipePersists ==
    commit # <<>> =>
        \A i \in NonTerminating(prevPipes) :
            ~equalHashes(prevPipes[i].toHash, commit[1].Hash) =>
                \E j \in 1..Len(pipes) :
                    /\ pipes[j].kind = CONTINUES
                    /\ pipes[j].fromHash = prevPipes[i].fromHash
                    /\ pipes[j].toHash = prevPipes[i].toHash

\* C6: a commit with zero parents yields exactly one STARTS pipe; it is
\* sourced from the commit, starts and ends on the commit's lane, and its
\* destination hash is the sentinel
C6_RootCommitOneStartsPipe ==
    (commit # <<>> /\ Len(commit[1].Parents) = 0) =>
        /\ Cardinality({i \in 1..Len(pipes) : pipes[i].kind = STARTS}) = 1
        /\ \A i \in 1..Len(pipes) : pipes[i].kind = STARTS =>
              /\ pipes[i].fromHash = commit[1].Hash
              /\ pipes[i].fromPos = commitLane(prevPipes, commit[1])
              /\ pipes[i].toPos = commitLane(prevPipes, commit[1])
              /\ pipes[i].toHash = EmptyTreeCommitHash

\* a root commit placed to the right of a pipe that continues
C6_Witness ==
    /\ commit # <<>> /\ Len(commit[1].Parents) = 0
    /\ \E i \in 1..Len(pipes) : pipes[i].kind = CONTINUES
    /\ \E i \in 1..Len(pipes) : pipes[i].kind = STARTS /\ pipes[i].fromPos > 0

----------------------------------------------------------------------------
\* Properties of renderPipeSet (specification Spec)

SameFlags(a, b) ==
    /\ a.up = b.up /\ a.down = b.down /\ a.left = b.left /\ a.right = b.right

\* C8 as stated: with a selection and with none, every cell has the same
\* connector flags and the same cell type
C8_SelectionKeepsLayout ==
    (rendered # <<>> /\ selectedCommitHash # <<>>) =>
        /\ DOMAIN rendered[1].cells = DOMAIN renderedNoSel[1].cells
        /\ \A i \in DOMAIN rendered[1].cells :
              /\ SameFlags(rendered[1].cells[i], renderedNoSel[1].cells[i])
              /\ rendered[1].cells[i].cellType = renderedNoSel[1].cells[i].cellType

\* C8 amended: with a selection and with none, every cell has the same cell
\* type, and every cell that no selected pipe spans has the same flags
C8_SelectionKeepsLayoutOutsideSelected ==
    (rendered # <<>> /\ selectedCommitHash # <<>>) =>
        /\ DOMAIN rendered[1].cells = DOMAIN renderedNoSel[1].cells
        /\ \A i \in DOMAIN rendered[1].cells :
              /\ rendered[1].cells[i].cellType = renderedNoSel[1].cells[i].cellType
              /\ i \notin rendered[1].resetCells =>
                    SameFlags(rendered[1].cells[i], renderedNoSel[1].cells[i])

\* a row rendered with a selection whose pipes cross a lane another pipe
\* uses: the flags differ on a reset cell, and a cell outside keeps its flags
C8_Witness ==
    /\ rendered # <<>> /\ selectedCommitHash # <<>>
    /\ rendered[1].selectedPipes # <<>>
    /\ \E i \in rendered[1].resetCells :
          ~SameFlags(rendered[1].cells[i], renderedNoSel[1].cells[i])
    /\ \E i \in DOMAIN rendered[1].cells :
          /\ i \notin rendered[1].resetCells
          /\ rendered[1].cells[i].up /\ rendered[1].cells[i].down

\* C9: with the empty selection no pipe is selected, no cell is reset and no
\* cell has the highlight style
C9_EmptySelectionHighlightsNothing ==
    (rendered # <<>> /\ selectedCommitHash = <<>>) =>
        /\ rendered[1].selectedPipes = <<>>
        /\ rendered[1].resetCells = {}
        /\ \A i \in DOMAIN rendered[1].cells :
              /\ rendered[1].cells[i].style # highlightStyle
              /\ rendered[1].cells[i].rightStyle # <<highlightStyle>>

\* a row of several pipes, with a previous commit, rendered with ""
C9_Witness ==
    /\ rendered # <<>> /\ selectedCommitHash = <<>>
    /\ prevCommit # <<>>
    /\ Len(pipes) >= 3

----------------------------------------------------------------------------
\* Properties of RenderCommitGraph and RenderAux (specification SpecRender)

\* the lines a sequential render gives, in row order
ExpectedLines ==
    [k \in 1..Len(pipeSets) |->
        renderPipeSet(pipeSets[k], selectedCommitHash,
                      IF k > 1 THEN <<commits[k - 1]>> ELSE <<>>).line]

\* C4: whatever the worker count and the interleaving, RenderAux returns the
\* render of every row with the selection and the previous commit, in row
\* order
C4_RenderAuxDeterministic ==
    (pc = "done" /\ commits # <<>>) => lines = ExpectedLines

\* RenderAux has returned with more workers than rows
C4_Witness ==
    /\ pc = "done" /\ Len(commits) >= 2 /\ maxProcs > Len(commits)
    /\ Len(lines) = Len(commits)
    /\ selectedCommitHash # <<>>

\* C5: one pipe set and one line per commit; for an empty commit list both
\* are empty and no worker is started
C5_OneRowPerCommit ==
    /\ pc # "start" => Len(pipeSets) = Len(commits)
    /\ pc = "done" => Len(lines) = Len(commits)
    /\ commits = <<>> =>
          /\ pipeSets = <<>> /\ lines = <<>>
          /\ spawned = 0 /\ \A i \in Procs : wpc[i] = "none"

\* three rows rendered by two workers, the last one taking the remainder
C5_Witness ==
    /\ pc = "done" /\ Len(commits) = 3 /\ maxProcs = 2 /\ Len(lines) = 3

IsLinearChain(cs) ==
    /\ Len(cs) = 3
    /\ cs[1].Parents = <<cs[2].Hash>>
    /\ cs[2].Parents = <<cs[3].Hash>>
    /\ cs[3].Parents = <<>>

\* C7 as stated: a linear chain of three commits gives 3 rows and each row
\* contains exactly one pipe, at lane 0
C7_ChainOnePipePerRow ==
    (pc # "start" /\ IsLinearChain(commits)) =>
        /\ Len(pipeSets) = 3
        /\ \A k \in 1..3 :
              /\ Len(pipeSets[k]) = 1
              /\ pipeSets[k][1].fromPos = 0 /\ pipeSets[k][1].toPos = 0

\* C7 amended: a linear chain of three commits gives 3 rows and each row
\* contains exactly two pipes, both from lane 0 to lane 0: the TERMINATES
\* pipe that ends on the commit and the STARTS pipe of the commit
C7_ChainTwoPipesPerRow ==
    (pc # "start" /\ IsLinearChain(commits)) =>
        /\ Len(pipeSets) = 3
        /\ \A k \in 1..3 :
              /\ Len(pipeSets[k]) = 2
              /\ pipeSets[k][1].kind = TERMINATES
              /\ pipeSets[k][2].kind = STARTS
              /\ pipeSets[k][2].fromHash = commits[k].Hash
              /\ \A j \in 1..2 : /\ pipeSets[k][j].fromPos = 0
                                 /\ pipeSets[k][j].toPos = 0

\* GetPipeSets has returned the rows of a linear chain
C7_Witness ==
    /\ pc = "done" /\ IsLinearChain(commits) /\ Len(pipeSets) = 3

----------------------------------------------------------------------------
\* Properties of equalHashes (specification SpecEq)

IsPrefixOf(s, t) ==
    /\ Len(s) <= Len(t)
    /\ \A i \in 1..Len(s) : s[i] = t[i]

\* C10: equalHashes(a, b) is true exactly when both are non-empty and the
\* shorter is a prefix of the longer; it is symmetric, and false when either
\* argument is empty
C10_EqualHashesIsPrefixEquality ==
    eqResult # <<>> =>
        /\ eqResult[1] <=>
              /\ eqA # <<>> /\ eqB # <<>>
              /\ IF Len(eqA) <= Len(eqB) THEN IsPrefixOf(eqA, eqB)
                                         ELSE IsPrefixOf(eqB, eqA)
        /\ eqResult[1] = eqResult[2]
        /\ (eqA = <<>> \/ eqB = <<>>) => ~eqResult[1]

\* an abbreviated hash compared with a longer hash it is a prefix of
C10_Witness ==
    /\ eqResult # <<>> /\ eqResult[1]
    /\ Len(eqA) < Len(eqB)

----------------------------------------------------------------------------
\* Properties of the lane allocation in getNextPipes (specification Spec)

\* the pipes of the current row in the order getNextPipes emitted them, up
\* to the end of the first and of the second loop
EmittedAfterFirst  == afterFirstLoop(prevPipes, commit[1]).newPipes
EmittedAfterSecond == afterSecondLoop(prevPipes, commit[1]).newPipes

InRow(pipe) == \E i \in 1..Len(pipes) : pipes[i] = pipe

SmallestLaneNotIn(S) ==
    CHOOSE l \in 0..Cardinality(S) : l \notin S /\ \A m \in 0..(l - 1) : m \in S

\* the lanes of the previous row on which a pipe that the commit does not
\* end survives
SurvivingLanes ==
    {prevPipes[i].toPos : i \in {j \in NonTerminating(prevPipes) :
                                   ~equalHashes(prevPipes[j].toHash, commit[1].Hash)}}

----------------------------------------------------------------------------
\* Properties of the workers of RenderAux (specification SpecRender)

\* the rows [ChunkLo(i), ChunkHi(i)) of worker i, counted from 0: floor
\* division, the last chunk takes the remainder
ChunkLo(i) == i * (Len(pipeSets) \div maxProcs)
ChunkHi(i) == IF i = maxProcs - 1 THEN Len(pipeSets)
              ELSE (i + 1) * (Len(pipeSets) \div maxProcs)

WorkerStarted(i) == wpc[i] \in {"loop", "stored", "done"}
WorkerStored(i)  == wpc[i] \in {"stored", "done"}

\* C12: worker i renders exactly the rows ChunkLo(i) .. ChunkHi(i)-1, in
\* order and once each; the ranges are disjoint and cover all rows; slot
\* chunks[i] holds nothing until worker i stores its own lines there
C12_WorkersRenderDisjointChunks ==
    pc \in {"spawn", "wait", "done"} /\ commits # <<>> =>
        /\ \A k \in 0..(Len(pipeSets) - 1) :
              Cardinality({i \in Procs : ChunkLo(i) <= k /\ k < ChunkHi(i)}) = 1
        /\ \A i \in Procs :
              /\ WorkerStarted(i) =>
                    /\ ChunkLo(i) <= wk[i] /\ wk[i] <= ChunkHi(i)
                    /\ Len(innerLines[i]) = wk[i] - ChunkLo(i)
                    /\ \A m \in 1..Len(innerLines[i]) :
                          innerLines[i][m] = ExpectedLines[ChunkLo(i) + m]
              /\ WorkerStored(i) =>
                    /\ wk[i] = ChunkHi(i)
                    /\ chunks[i] = innerLines[i]
              /\ ~WorkerStored(i) => chunks[i] = <<>>

\* of two workers the first has stored its chunk while the second, which
\* takes the remainder, is still rendering
C12_Witness ==
    /\ pc = "wait" /\ maxProcs = 2 /\ Len(pipeSets) = 3
    /\ WorkerStored(0) /\ Len(chunks[0]) = 1
    /\ wpc[1] = "loop" /\ Len(innerLines[1]) = 1

----------------------------------------------------------------------------
\* Properties of the commit's lane in getNextPipes (specification Spec)

\* the surviving pipes of the previous row that end at the commit
MatchingSurvivors ==
    {i \in NonTerminating(prevPipes) :
        equalHashes(prevPipes[i].toHash, commit[1].Hash)}

LargestLane(row) ==
    CHOOSE m \in {row[i].toPos : i \in 1..Len(row)} :
        \A i \in 1..Len(row) : row[i].toPos <= m

\* the lane of the first matching survivor, else one past the largest lane
ExpectedCommitLane ==
    IF MatchingSurvivors = {}
    THEN LargestLane(prevPipes) + 1
    ELSE prevPipes[CHOOSE i \in MatchingSurvivors :
                      \A j \in MatchingSurvivors : i <= j].toPos

\* C13: the commit's lane (the source lane of its STARTS pipes) is the
\* destination lane of the first surviving pipe of the previous row that
\* matches the commit, or one more than the largest destination lane of the
\* previous row if none matches; every matching surviving pipe yields a
\* TERMINATES pipe from its old lane to the commit's lane
C13_CommitLaneAndTerminations ==
    commit # <<>> =>
        /\ \E i \in 1..Len(pipes) : pipes[i].kind = STARTS
        /\ \A i \in 1..Len(pipes) :
              pipes[i].kind = STARTS => pipes[i].fromPos = ExpectedCommitLane
        /\ \A i \in MatchingSurvivors :
              \E j \in 1..Len(pipes) :
                  /\ pipes[j].kind = TERMINATES
                  /\ pipes[j].fromPos = prevPipes[i].toPos
                  /\ pipes[j].toPos = ExpectedCommitLane
                  /\ pipes[j].fromHash = prevPipes[i].fromHash
                  /\ pipes[j].toHash = prevPipes[i].toHash

\* a commit on which pipes from two different lanes end, with a pipe that
\* continues to its left
C13_Witness ==
    /\ commit # <<>>
    /\ \E i, j \in MatchingSurvivors : prevPipes[i].toPos < prevPipes[j].toPos
    /\ ExpectedCommitLane > 0

----------------------------------------------------------------------------
\* Properties of the pipes right of the commit (specification Spec)

Survivors == currentPipesOf(prevPipes)

\* the state of getNextPipes when the third loop reaches Survivors[i], and
\* right after that iteration
BeforeThirdLoopAt(i) ==
    continueRight(afterSecondLoop(prevPipes, commit[1]),
                  SubSeq(Survivors, 1, i - 1), 1, commit[1], ExpectedCommitLane)
AfterThirdLoopAt(i) ==
    continueRight(afterSecondLoop(prevPipes, commit[1]),
                  SubSeq(Survivors, 1, i), 1, commit[1], ExpectedCommitLane)

RightOfCommit ==
    {i \in 1..Len(Survivors) :
        /\ ~equalHashes(Survivors[i].toHash, commit[1].Hash)
        /\ Survivors[i].toPos > ExpectedCommitLane}

\* C14: a surviving pipe that does not match the commit and lies right of
\* it yields a CONTINUES pipe to a lane d, commit lane < d <= old lane; the
\* lanes d .. old-1 were neither taken nor traversed when it was processed,
\* and d-1 is the commit's lane or was taken or traversed, or d is the old
\* lane because that lane was taken or traversed
C14_RightPipeSlidesLeft ==
    commit # <<>> =>
        \A i \in RightOfCommit :
            LET before == BeforeThirdLoopAt(i)
                after == AfterThirdLoopAt(i).newPipes
                q == after[Len(after)]
                old == Survivors[i].toPos
                d == q.toPos
                blocked == before.takenSpots \cup before.traversedSpots
            IN  /\ Len(after) = Len(before.newPipes) + 1
                /\ InRow(q)
                /\ q.kind = CONTINUES /\ q.fromPos = old
                /\ q.fromHash = Survivors[i].fromHash
                /\ q.toHash = Survivors[i].toHash
                /\ ExpectedCommitLane < d /\ d <= old
                /\ \A l \in d..(old - 1) : l \notin blocked
                /\ \/ d - 1 = ExpectedCommitLane
                   \/ d - 1 \in blocked
                   \/ d = old /\ old \in blocked

\* a pipe right of the commit slides to a lower lane
C14_Witness ==
    /\ commit # <<>>
    /\ \E i \in RightOfCommit :
          LET after == AfterThirdLoopAt(i).newPipes
          IN  /\ after[Len(after)].toPos < Survivors[i].toPos
              /\ InRow(after[Len(after)])

----------------------------------------------------------------------------
\* Properties of the selection in renderPipeSet (specification Spec)

PrefixMatch(a, b) ==
    /\ a # <<>> /\ b # <<>>
    /\ IsPrefixOf(a, b) \/ IsPrefixOf(b, a)

SourcedFromSelection ==
    {i \in 1..Len(pipes) : PrefixMatch(pipes[i].fromHash, selectedCommitHash)}

\* the previous commit is the selection and nothing but zero-length
\* terminations leaves it in this row
OnlyAdjacentToSelection ==
    /\ prevCommit # <<>>
    /\ PrefixMatch(prevCommit[1].Hash, selectedCommitHash)
    /\ \A i \in SourcedFromSelection :
          pipes[i].kind = TERMINATES /\ pipes[i].fromPos = pipes[i].toPos

\* C15: when the previous commit matches the selection and every pipe
\* sourced from the selection is a TERMINATES pipe with equal source and
\* destination lane, no pipe is rendered as selected; in every other case
\* exactly the pipes sourced from the selection are
C15_SelectedPipes ==
    rendered # <<>> =>
        LET Sourced(pipe) == PrefixMatch(pipe.fromHash, selectedCommitHash)
        IN  rendered[1].selectedPipes =
                IF OnlyAdjacentToSelection THEN <<>> ELSE SelectSeq(pipes, Sourced)

\* the row below the selected commit, joined to it by a zero-length
\* termination only
C15_Witness ==
    /\ rendered # <<>>
    /\ OnlyAdjacentToSelection
    /\ SourcedFromSelection # {}
    /\ rendered[1].selectedPipes = <<>>

----------------------------------------------------------------------------
\* Specification SpecRenderFair: RenderAux from its entry, on the pipe sets
\* of a non-empty commit list, with the Go scheduler's fairness: the calling
\* goroutine and every worker goroutine that can take a step eventually
\* takes one

InitRenderAux ==
    /\ foldIdle /\ eqIdle
    /\ commits \in RenderInputs \ {<<>>}
    /\ selectedCommitHash \in RenderSelections
    /\ maxProcs \in 1..MaxProcs
    /\ pipeSets = GetPipeSets(commits)
    /\ pc = "aux"
    /\ spawned = 0
    /\ wpc = [i \in Procs |-> "none"]
    /\ wk = [i \in Procs |-> 0]
    /\ innerLines = [i \in Procs |-> <<>>]
    /\ chunks = [i \in Procs |-> <<>>]
    /\ wg = 0
    /\ lines = <<>>

MainStep == EnterRenderAux \/ Spawn \/ WaitAndFlatten

WorkerStep(i) ==
    /\ i \in Procs
    /\ WorkerRange(i) \/ WorkerRender(i) \/ WorkerStore(i) \/ WorkerDone(i)

NextRenderAux ==
    \/ EnterRenderAux
    \/ Spawn
    \/ \E i \in Procs : WorkerRange(i)
    \/ \E i \in Procs : WorkerRender(i)
    \/ \E i \in Procs : WorkerStore(i)
    \/ \E i \in Procs : WorkerDone(i)
    \/ WaitAndFlatten

SpecRenderFair ==
    /\ InitRenderAux /\ [][NextRenderAux]_vars
    /\ WF_vars(MainStep)
    /\ \A i \in 0..(MaxProcs - 1) : WF_vars(WorkerStep(i))

AllWorkersStored == \A i \in Procs : WorkerStored(i)
AllWorkersDone   == \A i \in Procs : wpc[i] = "done"

\* while RenderAux runs, the WaitGroup counter is the number of workers
\* that have not called Done
BarrierCountsWorkers ==
    pc \in {"spawn", "wait"} =>
        wg = Cardinality({i \in Procs : wpc[i] # "done"})

ReturnsAfterAllStored ==
    (pc = "done" /\ commits # <<>>) =>
        /\ AllWorkersStored /\ AllWorkersDone
        /\ \A i \in Procs : chunks[i] = innerLines[i]

\* C16: RenderAux returns only after every worker has stored its chunk, the
\* barrier opens exactly when the last worker has finished, and under fair
\* scheduling the call always eventually returns
C16_ReturnsAfterAllWorkers ==
    /\ [](ReturnsAfterAllStored /\ BarrierCountsWorkers)
    /\ <>(pc = "done")

\* the call has returned after three workers ran
C16_Witness ==
    /\ pc = "done" /\ maxProcs = 3 /\ Len(lines) = 3
    /\ AllWorkersDone /\ wg = 0


----------------------------------------------------------------------------
\* C17

\* pipe a may stand directly before pipe b in a sorted row
InOrder(a, b) ==
    \/ a.toPos < b.toPos
    \/ a.toPos = b.toPos /\ a.kind <= b.kind

\* C17: every row is ordered by ascending destination lane, and pipes with
\* the same destination lane are ordered TERMINATES, STARTS, CONTINUES
C17_RowSortedByLaneThenKind ==
    /\ TERMINATES < STARTS /\ STARTS < CONTINUES
    /\ nRows > 0 =>
          \A i \in 1..(Len(pipes) - 1) : InOrder(pipes[i], pipes[i + 1])

\* a row in which one lane is the destination of a TERMINATES pipe and of a
\* STARTS pipe, a CONTINUES pipe follows on a higher lane, and the loops
\* emitted the pipes in another order
C17_Witness ==
    /\ nRows > 0
    /\ \E i, j, k \in 1..Len(pipes) :
          /\ i < j /\ j < k
          /\ pipes[i].kind = TERMINATES /\ pipes[j].kind = STARTS
          /\ pipes[k].kind = CONTINUES
          /\ pipes[i].toPos = pipes[j].toPos /\ pipes[j].toPos < pipes[k].toPos
    /\ afterThirdLoop(prevPipes, commit[1]).newPipes # pipes

----------------------------------------------------------------------------
\* C18

\* C18: in every row folded from the seed pipe, every CONTINUES pipe has a
\* destination lane that is not to the right of its source lane
C18_ContinuesNeverMovesRight ==
    nRows > 0 =>
        \A i \in 1..Len(pipes) :
            pipes[i].kind = CONTINUES => pipes[i].toPos <= pipes[i].fromPos

----------------------------------------------------------------------------
\* C19

StartsLanes(row)     == {row[i].fromPos : i \in {j \in 1..Len(row) : row[j].kind = STARTS}}
TerminatesLanes(row) == {row[i].toPos : i \in {j \in 1..Len(row) : row[j].kind = TERMINATES}}

\* C19: every row folded from the seed pipe has a STARTS pipe; the source
\* lanes of its STARTS pipes and the destination lanes of its TERMINATES
\* pipes are one single lane, which is the commit lane renderPipeSet derives
\* and which lies within the cells renderPipeSet allocates
C19_CommitLaneIsSingleLane ==
    nRows > 0 =>
        /\ \E i \in 1..Len(pipes) : pipes[i].kind = STARTS
        /\ Cardinality(StartsLanes(pipes) \cup TerminatesLanes(pipes)) = 1
        /\ StartsLanes(pipes) = {renderCommitPos(pipes)}
        /\ renderCommitPos(pipes) = commitLane(prevPipes, commit[1])
        /\ renderCommitPos(pipes) \in 0..renderMaxPos(pipes)

\* a merge commit on a lane other than 0 that ends two pipes: the row has
\* two STARTS pipes and two TERMINATES pipes
C19_Witness ==
    /\ nRows > 0
    /\ Cardinality({i \in 1..Len(pipes) : pipes[i].kind = STARTS}) = 2
    /\ Cardinality({i \in 1..Len(pipes) : pipes[i].kind = TERMINATES}) = 2
    /\ renderCommitPos(pipes) > 0
    /\ \E i \in 1..Len(pipes) :
          pipes[i].kind = TERMINATES /\ pipes[i].fromPos # pipes[i].toPos

====
